---- MODULE Spec2Model ----
(***************************************************************************)
(* A model of the LC-3 assembler of src/src/main.rs: the tokenizer, the   *)
(* mnemonic table, parse_register, parse, the two binary() encoders and    *)
(* main's tokenize / parse / print pipeline.                               *)
(*                                                                         *)
(* Text is a sequence of characters.  A character is a one-letter string,  *)
(* or the name "U+XXXX" of a non-ASCII character, whose UTF-8 width is     *)
(* given by Utf8Len.  Rust indexes a str by bytes, so the tokenizer's pos  *)
(* is a byte offset and slicing off a character boundary panics.           *)
(***************************************************************************)
EXTENDS Integers, Sequences, FiniteSets

VARIABLES file_content, pos, tokens, token_slice, results, last, output, pc

vars == <<file_content, pos, tokens, token_slice, results, last, output, pc>>

(***************************************************************************)
(* Bounds of the model.                                                    *)
(***************************************************************************)
\* lines of an input file beyond the first
MaxMoreLines == 1
\* characters of a text given to the tokenizer alone
MaxTextLen == 4
\* characters of a token given to parse_register alone
MaxRegLen == 3

(***************************************************************************)
(* Characters and strings                                                  *)
(***************************************************************************)
\* char::len_utf8 of the characters the model uses
Utf8Len(c) ==
    CASE c = "U+00E9" -> 2      \* e with acute accent
      [] c = "U+00A0" -> 2      \* no-break space (White_Space)
      [] c = "U+2003" -> 3      \* em space (White_Space)
      [] OTHER -> 1

\* char::is_whitespace
is_whitespace(c) == c \in {" ", "\t", "\n", "\r", "U+00A0", "U+2003"}

\* the delimiter test of Tokenizer::next, line 372
IsDelimiter(c) == is_whitespace(c) \/ c = ","

RECURSIVE ByteLenFrom(_, _)
\* the bytes of the characters s[k..]
ByteLenFrom(s, k) ==
    IF k > Len(s) THEN 0 ELSE Utf8Len(s[k]) + ByteLenFrom(s, k + 1)

\* str::len: the length of a text in bytes
ByteLen(s) == ByteLenFrom(s, 1)

RECURSIVE CharsUpTo(_, _, _, _)
\* With the characters before s[k] taking off bytes: the number of characters
\* of s that lie before byte offset b when b is a character boundary of s
\* (the end of s included), and -1 when it is not.
CharsUpTo(s, k, off, b) ==
    IF off = b THEN k - 1
    ELSE IF off > b \/ k > Len(s) THEN -1
    ELSE CharsUpTo(s, k + 1, off + Utf8Len(s[k]), b)

\* str::is_char_boundary
is_char_boundary(s, b) == CharsUpTo(s, 1, 0, b) >= 0

\* &s[a..b] when a and b are character boundaries with a <= b
Slice(s, a, b) == SubSeq(s, CharsUpTo(s, 1, 0, a) + 1, CharsUpTo(s, 1, 0, b))

\* whether &s[a..b] panics: an offset off a boundary or past the end
SlicePanics(s, a, b) ==
    ~ (a <= b /\ is_char_boundary(s, a) /\ is_char_boundary(s, b))

LowerLetters ==
    <<"a", "b", "c", "d", "e", "f", "g", "h", "i", "j", "k", "l", "m",
      "n", "o", "p", "q", "r", "s", "t", "u", "v", "w", "x", "y", "z">>

UpperLetters ==
    <<"A", "B", "C", "D", "E", "F", "G", "H", "I", "J", "K", "L", "M",
      "N", "O", "P", "Q", "R", "S", "T", "U", "V", "W", "X", "Y", "Z">>

\* char::to_lowercase; the non-ASCII characters of the model have no case
LowerChar(c) ==
    IF \E k \in 1..26 : UpperLetters[k] = c
    THEN LowerLetters[CHOOSE k \in 1..26 : UpperLetters[k] = c]
    ELSE c

\* char::to_uppercase
UpperChar(c) ==
    IF \E k \in 1..26 : LowerLetters[k] = c
    THEN UpperLetters[CHOOSE k \in 1..26 : LowerLetters[k] = c]
    ELSE c

to_uppercase(s) == [i \in 1..Len(s) |-> UpperChar(s[i])]

to_lowercase(s) == [i \in 1..Len(s) |-> LowerChar(s[i])]

(***************************************************************************)
(* Tokenizer::next, lines 367-390                                          *)
(***************************************************************************)
RECURSIVE ScanLoop(_, _, _, _)
\* The while loop of lines 371-381 over the characters chars[i..]: count is
\* the local count, p the field self.pos.  Yields both at the loop's exit.
ScanLoop(chars, i, count, p) ==
    IF i > Len(chars) THEN [count |-> count, pos |-> p]
    ELSE IF IsDelimiter(chars[i])
         THEN IF count > 0 THEN [count |-> count, pos |-> p]
              ELSE ScanLoop(chars, i + 1, count, p + 1)
         ELSE ScanLoop(chars, i + 1, count + 1, p)

\* One call of next() on Tokenizer {input, pos: p}:
\*   [kind |-> "some", tok, pos]  Some(tok), the cursor left at pos
\*   [kind |-> "none", pos]       None
\*   [kind |-> "panic", pos]      a slice off a character boundary
TokenizerNextResult(input, p) ==
    IF SlicePanics(input, p, ByteLen(input))
    THEN [kind |-> "panic", tok |-> <<>>, pos |-> p]
    ELSE LET r == ScanLoop(Slice(input, p, ByteLen(input)), 1, 0, p)
         IN  IF r.count > 0
             THEN IF SlicePanics(input, r.pos, r.pos + r.count)
                  THEN [kind |-> "panic", tok |-> <<>>, pos |-> r.pos]
                  ELSE [kind |-> "some",
                        tok  |-> Slice(input, r.pos, r.pos + r.count),
                        pos  |-> r.pos + r.count]
             ELSE [kind |-> "none", tok |-> <<>>, pos |-> r.pos]

(***************************************************************************)
(* Instruction: the mnemonic table, lines 11-105                           *)
(***************************************************************************)
Instructions ==
    {"Add", "And", "Branch", "Jump", "JumpSubroutine",
     "JumpSubroutineRegister", "Load", "LoadIndirect", "LoadRegister",
     "LoadEffectiveAddress", "Not", "Return", "ReturnInterrupt", "Store",
     "StoreIndirect", "StoreRegister", "Trap"}

\* Instruction::binary, lines 33-53: the 4-bit opcode
InstructionBinary(i) ==
    CASE i = "Add" -> 1                         \* 0b0001
      [] i = "And" -> 5                         \* 0b0101
      [] i = "Branch" -> 0                      \* 0b0000
      [] i = "Jump" -> 12                       \* 0b1100
      [] i = "JumpSubroutine" -> 4              \* 0b0100
      [] i = "JumpSubroutineRegister" -> 4      \* 0b0100
      [] i = "Load" -> 2                        \* 0b0010
      [] i = "LoadIndirect" -> 2                \* 0b0010
      [] i = "LoadRegister" -> 6                \* 0b0110
      [] i = "LoadEffectiveAddress" -> 14       \* 0b1110
      [] i = "Not" -> 9                         \* 0b1001
      [] i = "Return" -> 12                     \* 0b1100
      [] i = "ReturnInterrupt" -> 12            \* 0b1100
      [] i = "Store" -> 3                       \* 0b0011
      [] i = "StoreIndirect" -> 3               \* 0b0011
      [] i = "StoreRegister" -> 7               \* 0b0111
      [] i = "Trap" -> 15                       \* 0b1111

\* Instruction::num_args, lines 56-76
num_args(i) ==
    CASE i = "Add" -> 3
      [] i = "And" -> 3
      [] i = "Branch" -> 2
      [] i = "Jump" -> 1
      [] i = "JumpSubroutine" -> 1
      [] i = "JumpSubroutineRegister" -> 1
      [] i = "Load" -> 2
      [] i = "LoadIndirect" -> 2
      [] i = "LoadRegister" -> 3
      [] i = "LoadEffectiveAddress" -> 2
      [] i = "Not" -> 2
      [] i = "Return" -> 0
      [] i = "ReturnInterrupt" -> 0
      [] i = "Store" -> 2
      [] i = "StoreIndirect" -> 2
      [] i = "StoreRegister" -> 3
      [] i = "Trap" -> 1

\* the string patterns of Instruction::try_from, lines 85-101
Keyword(i) ==
    CASE i = "Add" -> <<"a", "d", "d">>
      [] i = "And" -> <<"a", "n", "d">>
      [] i = "Branch" -> <<"b", "r">>
      [] i = "Jump" -> <<"j", "m", "p">>
      [] i = "JumpSubroutine" -> <<"j", "s", "r">>
      [] i = "JumpSubroutineRegister" -> <<"j", "s", "r", "r">>
      [] i = "Load" -> <<"l", "d">>
      [] i = "LoadIndirect" -> <<"l", "d", "i">>
      [] i = "LoadRegister" -> <<"l", "d", "r">>
      [] i = "LoadEffectiveAddress" -> <<"l", "e", "a">>
      [] i = "Not" -> <<"n", "o", "t">>
      [] i = "Return" -> <<"r", "e", "t">>
      [] i = "ReturnInterrupt" -> <<"r", "t", "i">>
      [] i = "Store" -> <<"s", "t">>
      [] i = "StoreIndirect" -> <<"s", "t", "i">>
      [] i = "StoreRegister" -> <<"s", "t", "r">>
      [] i = "Trap" -> <<"t", "r", "a", "p">>

\* Instruction::try_from, lines 83-104: the instruction, or "Err" for
\* Err("Invalid instruction")
try_from(s) ==
    IF \E i \in Instructions : Keyword(i) = s
    THEN CHOOSE i \in Instructions : Keyword(i) = s
    ELSE "Err"

(***************************************************************************)
(* 16-bit arithmetic                                                       *)
(***************************************************************************)
RECURSIVE BitAnd(_, _)
\* a & b on naturals
BitAnd(a, b) ==
    IF a = 0 \/ b = 0 THEN 0
    ELSE (a % 2) * (b % 2) + 2 * BitAnd(a \div 2, b \div 2)

RECURSIVE BitOr(_, _)
\* a | b on naturals
BitOr(a, b) ==
    IF a = 0 THEN b
    ELSE IF b = 0 THEN a
    ELSE (IF a % 2 = 1 \/ b % 2 = 1 THEN 1 ELSE 0)
         + 2 * BitOr(a \div 2, b \div 2)

\* `x as u16` of an i8, i16 or u8: sign extension, two's complement
AsU16(x) == x % 65536

\* `a << n` on u16: the bits shifted past bit 15 are lost
Shl(a, n) == (a * 2 ^ n) % 65536

\* `(1 << n) - 1`
Mask(n) == 2 ^ n - 1

(***************************************************************************)
(* InstructionData::binary, lines 202-224: the 12-bit payload.  In Rust    *)
(* `as` binds tighter than `<<`, `<<` than `&`, `&` than `|`.              *)
(***************************************************************************)
\* lines 204 and 206
BinaryRegisterForm(d) ==
    BitOr(BitOr(Shl(AsU16(d.dr), 9), Shl(AsU16(d.sr1), 6)), AsU16(d.sr2))

\* lines 205 and 207
BinaryImmediateForm(d) ==
    BitOr(BitOr(BitOr(Shl(AsU16(d.dr), 9), Shl(AsU16(d.sr1), 6)), Shl(1, 5)),
          BitAnd(AsU16(d.imm5), Mask(5)))

\* lines 208, 212, 213, 215, 219, 220: r is nzp, dr or sr
BinaryPcOffset9(r, pc_offset9) ==
    BitOr(Shl(AsU16(r), 9), BitAnd(AsU16(pc_offset9), Mask(9)))

\* BinaryBaseOffset6 without the `& ((1 << 6) - 1)`
BinaryBaseOffset6Unmasked(r, base_r, offset6) ==
    BitOr(BitOr(Shl(AsU16(r), 9), Shl(AsU16(base_r), 6)), AsU16(offset6))

\* lines 214 and 221: r is dr or sr
BinaryBaseOffset6(r, base_r, offset6) ==
    BitOr(BitOr(Shl(AsU16(r), 9), Shl(AsU16(base_r), 6)),
          BitAnd(AsU16(offset6), Mask(6)))

InstructionDataBinary(d) ==
    CASE d.tag = "Add" -> BinaryRegisterForm(d)
      [] d.tag = "AddImmediate" -> BinaryImmediateForm(d)
      [] d.tag = "And" -> BinaryRegisterForm(d)
      [] d.tag = "AndImmediate" -> BinaryImmediateForm(d)
      [] d.tag = "Branch" -> BinaryPcOffset9(d.nzp, d.pc_offset9)
      [] d.tag = "Jump" -> Shl(AsU16(d.base_r), 6)
      [] d.tag = "JumpSubroutine" ->
            BitOr(Shl(1, 11), BitAnd(AsU16(d.pc_offset11), Mask(11)))
      [] d.tag = "JumpSubroutineRegister" -> Shl(AsU16(d.base_r), 6)
      [] d.tag = "Load" -> BinaryPcOffset9(d.dr, d.pc_offset9)
      [] d.tag = "LoadIndirect" -> BinaryPcOffset9(d.dr, d.pc_offset9)
      [] d.tag = "LoadRegister" -> BinaryBaseOffset6(d.dr, d.base_r, d.offset6)
      [] d.tag = "LoadEffectiveAddress" -> BinaryPcOffset9(d.dr, d.pc_offset9)
      [] d.tag = "Not" ->
            BitOr(BitOr(Shl(AsU16(d.dr), 9), Shl(AsU16(d.sr), 6)), 63)
      [] d.tag = "Return" -> 448                \* 0b000111000000
      [] d.tag = "ReturnInterrupt" -> 0         \* 0b000000000000
      [] d.tag = "Store" -> BinaryPcOffset9(d.sr, d.pc_offset9)
      [] d.tag = "StoreIndirect" -> BinaryPcOffset9(d.sr, d.pc_offset9)
      [] d.tag = "StoreRegister" -> BinaryBaseOffset6(d.sr, d.base_r, d.offset6)
      [] d.tag = "Trap" -> AsU16(d.trapvect8)

(***************************************************************************)
(* Numeric literals.  parse_uint and parse_int come from the crate         *)
(* num_parse (line 9), whose source is not in the repository; they are     *)
(* modelled as the crate documents them: like JavaScript's parseInt with   *)
(* radix 10, the leading digits are read and what follows is ignored, None *)
(* stands for NaN and for a value that does not fit the integer type, and  *)
(* parse_uint takes no sign.  No input of the model has the least value of *)
(* its type, where a checked negation could differ from this model.        *)
(***************************************************************************)
Digits == <<"0", "1", "2", "3", "4", "5", "6", "7", "8", "9">>

IsDigit(c) == \E k \in 1..10 : Digits[k] = c

\* char::to_digit(10) of a decimal digit
DigitValue(c) == (CHOOSE k \in 1..10 : Digits[k] = c) - 1

RECURSIVE Accumulate(_, _, _, _)
\* The digits s[i..] read left to right onto acc, stopping at the first
\* character that is no digit; -1 once the value exceeds limit (the checked
\* multiply-and-add of the integer type overflows).
Accumulate(s, i, acc, limit) ==
    IF i > Len(s) \/ ~ IsDigit(s[i]) THEN acc
    ELSE LET next == acc * 10 + DigitValue(s[i])
         IN  IF next > limit THEN -1 ELSE Accumulate(s, i + 1, next, limit)

None == [some |-> FALSE, v |-> 0]

Some(x) == [some |-> TRUE, v |-> x]

\* num_parse::parse_uint::<T>(s), T with maximum max: the leading run of
\* decimal digits, no sign; None when s starts with no digit or the value
\* does not fit T.  Characters after the digits are ignored.
parse_uint(s, max) ==
    IF s = <<>> \/ ~ IsDigit(s[1]) THEN None
    ELSE LET v == Accumulate(s, 1, 0, max)
         IN  IF v < 0 THEN None ELSE Some(v)

\* num_parse::parse_int::<T>(s), T with range min..max: an optional sign,
\* then as parse_uint; None when no digit follows the sign or the signed
\* value does not fit T.
parse_int(s, min, max) ==
    IF s = <<>> THEN None
    ELSE LET neg  == s[1] = "-"
             body == IF s[1] \in {"-", "+"} THEN Tail(s) ELSE s
         IN  IF body = <<>> \/ ~ IsDigit(body[1]) THEN None
             ELSE LET v == Accumulate(body, 1, 0, IF neg THEN -min ELSE max)
                  IN  IF v < 0 THEN None
                      ELSE Some(IF neg THEN -v ELSE v)

\* the ranges of the Rust integer types parse names
I8Min == -128
I8Max == 127
I16Min == -32768
I16Max == 32767
U8Max == 255

(***************************************************************************)
(* parse_register, lines 227-240                                           *)
(***************************************************************************)
\* [ok |-> TRUE, v |-> register] for Ok(register), [ok |-> FALSE, ...] for
\* Err("Invalid register").  Only the first two characters are looked at.
parse_register(s) ==
    IF /\ Len(s) >= 1
       /\ s[1] \in {"r", "R"}
       /\ Len(s) >= 2
       /\ IsDigit(s[2])
       /\ DigitValue(s[2]) < 8
    THEN [ok |-> TRUE, v |-> DigitValue(s[2])]
    ELSE [ok |-> FALSE, v |-> 0]

(***************************************************************************)
(* parse, lines 242-357                                                    *)
(*                                                                         *)
(* The result of a call is a record                                        *)
(*   kind        "ok" (Ok), "err" (Err(msg)) or "panic" (an unwrap of None *)
(*               or an index past the slice: the call does not return)     *)
(*   msg         the error or panic message                                *)
(*   instruction, data   the pair of Ok                                    *)
(*   rest        the slice args when the call ends                              *)
(***************************************************************************)
NoData == [tag |-> "none"]

ArmOk(d) == [kind |-> "ok", msg |-> "", data |-> d]

ArmErr(m) == [kind |-> "err", msg |-> m, data |-> NoData]

ArmPanic(m) == [kind |-> "panic", msg |-> m, data |-> NoData]

InvalidRegister == ArmErr("Invalid register")

UnwrapNone == ArmPanic("unwrap on None")

\* lines 256-277: tag is "Add" or "And"
ArithmeticArm(tag, immTag, args) ==
    LET dr  == parse_register(args[1])
        sr1 == parse_register(args[2])
        sr2 == parse_register(args[3])
        imm == parse_uint(args[3], I8Max)
    IN  IF ~ dr.ok THEN InvalidRegister
        ELSE IF ~ sr1.ok THEN InvalidRegister
        ELSE IF sr2.ok
             THEN ArmOk([tag |-> tag, dr |-> dr.v, sr1 |-> sr1.v, sr2 |-> sr2.v])
        ELSE IF ~ imm.some THEN UnwrapNone
        ELSE ArmOk([tag |-> immTag, dr |-> dr.v, sr1 |-> sr1.v, imm5 |-> imm.v])

\* str::contains(char)
contains(s, c) == \E k \in 1..Len(s) : s[k] = c

\* BranchFlags with the masks of z and p exchanged
BranchFlagsSwapped(s) ==
    BitOr(BitOr(IF contains(s, "n") THEN 4 ELSE 0,
                IF contains(s, "z") THEN 1 ELSE 0),
          IF contains(s, "p") THEN 2 ELSE 0)

\* lines 279-288
BranchFlags(s) ==
    BitOr(BitOr(IF contains(s, "n") THEN 4 ELSE 0,
                IF contains(s, "z") THEN 2 ELSE 0),
          IF contains(s, "p") THEN 1 ELSE 0)

\* lines 278-292
BranchArm(args) ==
    LET nzp == BranchFlags(args[1])
        off == parse_int(args[2], I16Min, I16Max)
    IN  IF ~ off.some THEN UnwrapNone
        ELSE ArmOk([tag |-> "Branch", nzp |-> nzp, pc_offset9 |-> off.v])

\* lines 293-296 and 301-304
BaseRegisterArm(tag, args) ==
    LET base_r == parse_register(args[1])
    IN  IF ~ base_r.ok THEN InvalidRegister
        ELSE ArmOk([tag |-> tag, base_r |-> base_r.v])

\* lines 297-300
JumpSubroutineArm(args) ==
    LET off == parse_int(args[1], I16Min, I16Max)
    IN  IF ~ off.some THEN UnwrapNone
        ELSE ArmOk([tag |-> "JumpSubroutine", pc_offset11 |-> off.v])

\* lines 305-309 and 321-325 (ld, lea): the register is dr
LoadArm(tag, args) ==
    LET dr  == parse_register(args[1])
        off == parse_int(args[2], I16Min, I16Max)
    IN  IF ~ dr.ok THEN InvalidRegister
        ELSE IF ~ off.some THEN UnwrapNone
        ELSE ArmOk([tag |-> tag, dr |-> dr.v, pc_offset9 |-> off.v])

\* lines 310-314 (ldi): the offset is read by parse_uint
LoadIndirectArm(args) ==
    LET dr  == parse_register(args[1])
        off == parse_uint(args[2], I16Max)
    IN  IF ~ dr.ok THEN InvalidRegister
        ELSE IF ~ off.some THEN UnwrapNone
        ELSE ArmOk([tag |-> "LoadIndirect", dr |-> dr.v, pc_offset9 |-> off.v])

\* lines 333-342 (st, sti): the register is sr
StoreArm(tag, args) ==
    LET sr  == parse_register(args[1])
        off == parse_int(args[2], I16Min, I16Max)
    IN  IF ~ sr.ok THEN InvalidRegister
        ELSE IF ~ off.some THEN UnwrapNone
        ELSE ArmOk([tag |-> tag, sr |-> sr.v, pc_offset9 |-> off.v])

\* lines 315-320 (ldr)
LoadRegisterArm(args) ==
    LET dr     == parse_register(args[1])
        base_r == parse_register(args[2])
        off    == parse_int(args[3], I8Min, I8Max)
    IN  IF ~ dr.ok THEN InvalidRegister
        ELSE IF ~ base_r.ok THEN InvalidRegister
        ELSE IF ~ off.some THEN UnwrapNone
        ELSE ArmOk([tag |-> "LoadRegister", dr |-> dr.v, base_r |-> base_r.v,
                    offset6 |-> off.v])

\* lines 343-348 (str)
StoreRegisterArm(args) ==
    LET sr     == parse_register(args[1])
        base_r == parse_register(args[2])
        off    == parse_int(args[3], I8Min, I8Max)
    IN  IF ~ sr.ok THEN InvalidRegister
        ELSE IF ~ base_r.ok THEN InvalidRegister
        ELSE IF ~ off.some THEN UnwrapNone
        ELSE ArmOk([tag |-> "StoreRegister", sr |-> sr.v, base_r |-> base_r.v,
                    offset6 |-> off.v])

\* lines 326-330
NotArm(args) ==
    LET dr == parse_register(args[1])
        sr == parse_register(args[2])
    IN  IF ~ dr.ok THEN InvalidRegister
        ELSE IF ~ sr.ok THEN InvalidRegister
        ELSE ArmOk([tag |-> "Not", dr |-> dr.v, sr |-> sr.v])

\* lines 349-352
TrapArm(args) ==
    LET v == parse_uint(args[1], U8Max)
    IN  IF ~ v.some THEN UnwrapNone
        ELSE ArmOk([tag |-> "Trap", trapvect8 |-> v.v])

\* the highest operand the arm of an instruction indexes, args[0] being 1
\* (an arm that returns early on an invalid register indexes fewer; the
\* arity check of line 251 keeps every index within the slice either way)
OperandsIndexed(i) ==
    CASE i \in {"Add", "And", "LoadRegister", "StoreRegister"} -> 3
      [] i \in {"Branch", "Load", "LoadIndirect", "LoadEffectiveAddress",
                "Not", "Store", "StoreIndirect"} -> 2
      [] i \in {"Jump", "JumpSubroutine", "JumpSubroutineRegister", "Trap"} -> 1
      [] i \in {"Return", "ReturnInterrupt"} -> 0

\* the match of lines 255-353; indexing past the slice panics
InstructionDataOf(i, args) ==
    IF OperandsIndexed(i) > Len(args) THEN ArmPanic("index out of bounds")
    ELSE CASE i = "Add" -> ArithmeticArm("Add", "AddImmediate", args)
           [] i = "And" -> ArithmeticArm("And", "AndImmediate", args)
           [] i = "Branch" -> BranchArm(args)
           [] i = "Jump" -> BaseRegisterArm("Jump", args)
           [] i = "JumpSubroutine" -> JumpSubroutineArm(args)
           [] i = "JumpSubroutineRegister" ->
                 BaseRegisterArm("JumpSubroutineRegister", args)
           [] i = "Load" -> LoadArm("Load", args)
           [] i = "LoadIndirect" -> LoadIndirectArm(args)
           [] i = "LoadRegister" -> LoadRegisterArm(args)
           [] i = "LoadEffectiveAddress" -> LoadArm("LoadEffectiveAddress", args)
           [] i = "Not" -> NotArm(args)
           [] i = "Return" -> ArmOk([tag |-> "Return"])
           [] i = "ReturnInterrupt" -> ArmOk([tag |-> "ReturnInterrupt"])
           [] i = "Store" -> StoreArm("Store", args)
           [] i = "StoreIndirect" -> StoreArm("StoreIndirect", args)
           [] i = "StoreRegister" -> StoreRegisterArm(args)
           [] i = "Trap" -> TrapArm(args)

\* SkipOperands counting the tokens by addressing mode: the immediate form
\* of add and and leaves its literal in the stream
SkipOperandsByMode(i, args) ==
    IF i \in {"Add", "And"} /\ ~ parse_register(args[3]).ok
    THEN SubSeq(args, 3, Len(args))
    ELSE SubSeq(args, num_args(i) + 1, Len(args))

\* line 355: *args = &args[instruction.num_args()..]
SkipOperands(i, args) == SubSeq(args, num_args(i) + 1, Len(args))

ParseResult(kind, msg, instruction, data, rest) ==
    [kind |-> kind, msg |-> msg, instruction |-> instruction, data |-> data,
     rest |-> rest]

parse(args) ==
    IF args = <<>>
    THEN ParseResult("err", "No instruction", "none", NoData, args)
    ELSE LET instruction == try_from(args[1])
             operands    == Tail(args)                       \* line 249
         IN  IF instruction = "Err"
             THEN ParseResult("err", "Invalid instruction", "none", NoData, args)
             ELSE IF num_args(instruction) > Len(operands)
             THEN ParseResult("err", "Invalid number of arguments",
                              instruction, NoData, operands)
             ELSE LET arm == InstructionDataOf(instruction, operands)
                  IN  IF arm.kind = "ok"
                      THEN ParseResult("ok", "", instruction, arm.data,
                                       SkipOperands(instruction, operands))
                      ELSE ParseResult(arm.kind, arm.msg, instruction, NoData,
                                       operands)

(***************************************************************************)
(* main, lines 393-409                                                     *)
(***************************************************************************)
RECURSIVE SplitLines(_, _)
\* the pieces of s between "\n" characters, cur being the piece under way
SplitLines(s, cur) ==
    IF s = <<>> THEN <<cur>>
    ELSE IF Head(s) = "\n" THEN <<cur>> \o SplitLines(Tail(s), <<>>)
    ELSE SplitLines(Tail(s), Append(cur, Head(s)))

StripCr(l) ==
    IF l # <<>> /\ l[Len(l)] = "\r" THEN SubSeq(l, 1, Len(l) - 1) ELSE l

\* str::lines: the lines of s without their "\n" or "\r\n"; the text after
\* the last "\n" is a line only if it is not empty
lines(s) ==
    LET pieces == SplitLines(s, <<>>)
        kept   == IF pieces[Len(pieces)] = <<>>
                  THEN SubSeq(pieces, 1, Len(pieces) - 1)
                  ELSE pieces
    IN  [i \in 1..Len(kept) |-> StripCr(kept[i])]

RECURSIVE BinaryDigits(_)
\* the binary digits of n >= 0, most significant first, at least one
BinaryDigits(n) ==
    IF n < 2 THEN <<Digits[n + 1]>>
    ELSE Append(BinaryDigits(n \div 2), Digits[(n % 2) + 1])

RECURSIVE ZeroPad(_, _)
ZeroPad(s, width) == IF Len(s) >= width THEN s ELSE ZeroPad(<<"0">> \o s, width)

\* format!("{:0<width>b}", n): padded with zeros up to width, never cut
FormatBinary(n, width) == ZeroPad(BinaryDigits(n), width)

\* the word printed at line 407: "{:04b}{:012b}"
FormatWord(instruction, data) ==
    FormatBinary(InstructionBinary(instruction), 4)
        \o FormatBinary(InstructionDataBinary(data), 12)

Min(a, b) == IF a < b THEN a ELSE b

\* lines 406-408: results zipped with the lines of the file
PrintedLines(res, content) ==
    LET ls == lines(content)
    IN  [i \in 1..Min(Len(res), Len(ls)) |->
            [word |-> FormatWord(res[i].instruction, res[i].data),
             line |-> to_uppercase(ls[i])]]

NoCall ==
    [kind |-> "none", msg |-> "", instruction |-> "none", data |-> NoData,
     rest |-> <<>>, before |-> <<>>]

\* the state when main has read the file `text` (line 395) and made the
\* Tokenizer of line 396
InitWith(text) ==
    /\ file_content = to_lowercase(text)
    /\ pos = 0
    /\ tokens = <<>>
    /\ token_slice = <<>>
    /\ results = <<>>
    /\ last = NoCall
    /\ output = <<>>
    /\ pc = "tokenize"

\* line 396: one call of next() by collect()
TokenizerNext ==
    /\ pc = "tokenize"
    /\ \E r \in {TokenizerNextResult(file_content, pos)} :
           /\ pos' = r.pos
           /\ tokens' = IF r.kind = "some" THEN Append(tokens, r.tok) ELSE tokens
           /\ token_slice' = IF r.kind = "none" THEN tokens ELSE token_slice
           /\ pc' = CASE r.kind = "some" -> "tokenize"
                      [] r.kind = "none" -> "parse"
                      [] r.kind = "panic" -> "panic"
    /\ UNCHANGED <<file_content, results, last, output>>

\* lines 402-404: one turn of the while loop, parse(..).unwrap()
ParseStep ==
    /\ pc = "parse"
    /\ Len(token_slice) > 0
    /\ \E r \in {parse(token_slice)} :
           /\ last' = [kind |-> r.kind, msg |-> r.msg,
                       instruction |-> r.instruction, data |-> r.data,
                       rest |-> r.rest, before |-> token_slice]
           /\ token_slice' = r.rest
           /\ results' = IF r.kind = "ok"
                         THEN Append(results, [instruction |-> r.instruction,
                                               data |-> r.data])
                         ELSE results
           /\ pc' = IF r.kind = "ok" THEN "parse" ELSE "panic"
    /\ UNCHANGED <<file_content, pos, tokens, output>>

\* lines 406-408, once the while loop has ended
PrintResults ==
    /\ pc = "parse"
    /\ Len(token_slice) = 0
    /\ output' = PrintedLines(results, file_content)
    /\ pc' = "done"
    /\ UNCHANGED <<file_content, pos, tokens, token_slice, results, last>>

(***************************************************************************)
(* The input files of the model: a first line from FirstLines or           *)
(* SpecialTexts, then up to MaxMoreLines lines from MoreLines.             *)
(***************************************************************************)
RECURSIVE NatDec(_)
NatDec(n) ==
    IF n < 10 THEN <<Digits[n + 1]>>
    ELSE Append(NatDec(n \div 10), Digits[(n % 10) + 1])

\* the decimal literal of an integer
Dec(n) == IF n < 0 THEN <<"-">> \o NatDec(-n) ELSE NatDec(n)

\* the token rK
Reg(k) == <<"r", Digits[k + 1]>>

RECURSIVE JoinWith(_, _)
\* the parts of a sequence of texts with sep between them
JoinWith(parts, sep) ==
    IF parts = <<>> THEN <<>>
    ELSE IF Len(parts) = 1 THEN parts[1]
    ELSE parts[1] \o sep \o JoinWith(Tail(parts), sep)

LineText(toks) == JoinWith(toks, <<" ">>)

FileText(lineTexts) == JoinWith(lineTexts, <<"\n">>)

GoodRegisters == {Reg(0), Reg(3), Reg(7)}

BadRegisters == {<<"r", "8">>, <<"x", "1">>, <<"r">>, <<"r", "1", "2">>}

Malformed == <<"a", "b", "c">>

ImmediateLiterals == {Dec(v) : v \in -17..16} \cup {Dec(127), Dec(128), Malformed}

Offset9Literals ==
    {Dec(v) : v \in {-257, -256, -1, 0, 5, 255, 256, 32767, 32768}}
        \cup {Malformed}

Offset11Literals ==
    {Dec(v) : v \in {-2049, -2048, -1025, -1024, -1, 0, 5, 1023, 1024, 2047,
                      2048, 32768}} \cup {Malformed}

Offset6Literals ==
    {Dec(v) : v \in {-33, -32, -1, 10, 31, 32, 127, 128}} \cup {Malformed}

TrapLiterals == {Dec(v) : v \in {-1, 0, 37, 255, 256}} \cup {<<"x", "2", "5">>}

Conditions ==
    {<<"n", "z", "p">>, <<"z">>, <<"z", "n">>, <<"p", "n", "z">>, <<"n">>,
     <<"p">>, <<"n", "p">>, <<"x", "y", "z">>, <<"x">>, <<"5">>}

ArithmeticLines ==
    {<<Keyword(m), a, b, c>> :
        m \in {"Add", "And"}, a \in {Reg(0)}, b \in {Reg(1)},
        c \in GoodRegisters \cup BadRegisters \cup ImmediateLiterals}
    \cup {<<Keyword(m), a, b, Reg(2)>> :
            m \in {"Add", "And"}, a \in BadRegisters, b \in {Reg(1), <<"r", "9">>}}
    \cup {<<Keyword("Add"), Reg(1), Reg(2), Reg(3)>>,
          <<Keyword("Add"), Reg(1), <<"y">>, Reg(3)>>}

PcOffsetLines ==
    {<<Keyword(m), r, v>> :
        m \in {"Load", "LoadIndirect", "LoadEffectiveAddress", "Store",
               "StoreIndirect"},
        r \in {Reg(0), Reg(7)}, v \in Offset9Literals}
    \cup {<<Keyword(m), <<"r", "8">>, Dec(5)>> :
            m \in {"Load", "LoadIndirect", "LoadEffectiveAddress", "Store",
                   "StoreIndirect"}}

BranchLines ==
    {<<Keyword("Branch"), c, v>> :
        c \in Conditions, v \in {Dec(-257), Dec(-256), Dec(-1), Dec(10),
                                 Dec(255), Dec(256), Malformed}}

BaseOffsetLines ==
    {<<Keyword(m), a, b, v>> :
        m \in {"LoadRegister", "StoreRegister"}, a \in {Reg(3), <<"r", "8">>},
        b \in {Reg(4)}, v \in Offset6Literals}

OneOperandLines ==
    {<<Keyword("JumpSubroutine"), v>> : v \in Offset11Literals}
    \cup {<<Keyword(m), r>> :
            m \in {"Jump", "JumpSubroutineRegister"},
            r \in GoodRegisters \cup BadRegisters}
    \cup {<<Keyword("Trap"), v>> : v \in TrapLiterals}

OtherLines ==
    {<<Keyword("Not"), a, b>> :
        a \in {Reg(1), <<"r", "8">>}, b \in {Reg(2), <<"x", "1">>}}
    \cup {<<Keyword("Return")>>, <<Keyword("ReturnInterrupt")>>,
          <<<<"b", "a", "d", "o", "p">>, Reg(1), Reg(2)>>,
          <<>>}

\* an instruction with fewer operands than its arity
ShortLines ==
    {<<Keyword("Branch"), <<"5">>>>, <<Keyword("Branch"), <<"z">>>>,
     <<Keyword("Branch")>>, <<Keyword("Add"), Reg(1), Reg(2)>>,
     <<Keyword("Add"), <<"r", "8">>>>, <<Keyword("Load"), Reg(1)>>,
     <<Keyword("LoadRegister"), Reg(1), Reg(2)>>, <<Keyword("Not"), Reg(1)>>,
     <<Keyword("Trap")>>, <<Keyword("Jump")>>, <<Keyword("JumpSubroutine")>>}

FirstLines ==
    ArithmeticLines \cup PcOffsetLines \cup BranchLines \cup BaseOffsetLines
        \cup OneOperandLines \cup OtherLines \cup ShortLines

\* first lines written with commas, capitals, tabs and doubled delimiters
SpecialTexts ==
    {<<"a", "d", "d", " ", "r", "1", ",", " ", "r", "2", ",", "r", "3">>,
     <<"A", "D", "D", " ", "R", "1", " ", "R", "2", " ", "R", "3">>,
     <<" ", "r", "e", "t", "\t", ",">>,
     <<"B", "R", " ", "N", "Z", " ", "-", "1">>,
     <<"r", "e", "t", "\r">>}

MoreLines ==
    {<<>>,
     <<Keyword("Return")>>,
     <<Keyword("Return"), Keyword("Return")>>,
     <<Keyword("Jump"), Reg(0)>>,
     <<Keyword("Jump"), Reg(7)>>,
     <<Keyword("LoadIndirect"), Reg(0), Dec(5)>>,
     <<Keyword("StoreIndirect"), Reg(0), Dec(5)>>,
     <<Keyword("Branch"), <<"5">>>>,
     <<Dec(7)>>}

InputFiles ==
    {FileText(<<first>> \o [i \in 1..Len(more) |-> LineText(more[i])]) :
        first \in {LineText(l) : l \in FirstLines} \cup SpecialTexts,
        more \in UNION {[1..n -> MoreLines] : n \in 0..MaxMoreLines}}

Init == \E text \in InputFiles : InitWith(text)

Next == TokenizerNext \/ ParseStep \/ PrintResults

Spec == Init /\ [][Next]_vars

(***************************************************************************)
(* The tokenizer alone, on every text of up to MaxTextLen characters       *)
(***************************************************************************)
TokenizerAlphabet == {"a", "1", " ", ",", "\n", "U+00E9", "U+00A0"}

TokenizerTexts ==
    UNION {[1..n -> TokenizerAlphabet] : n \in 0..MaxTextLen}

InitTok == \E text \in TokenizerTexts : InitWith(text)

SpecTok == InitTok /\ [][TokenizerNext]_vars

(***************************************************************************)
(* parse_register alone, on every token of up to MaxRegLen characters      *)
(***************************************************************************)
RegisterAlphabet == {"r", "R", "x", "0", "1", "7", "8", "9"}

RegisterTokens == UNION {[1..n -> RegisterAlphabet] : n \in 0..MaxRegLen}

InitReg ==
    \E tok \in RegisterTokens :
        /\ file_content = <<>>
        /\ pos = 0
        /\ tokens = <<tok>>
        /\ token_slice = <<tok>>
        /\ results = <<>>
        /\ last = NoCall
        /\ output = <<>>
        /\ pc = "register"

\* one call parse_register(token_slice[0])
RegisterCall ==
    /\ pc = "register"
    /\ \E r \in {parse_register(token_slice[1])} :
           last' = [kind |-> IF r.ok THEN "ok" ELSE "err",
                    msg |-> IF r.ok THEN "" ELSE "Invalid register",
                    instruction |-> "none",
                    data |-> [tag |-> "Register", v |-> r.v],
                    rest |-> token_slice, before |-> token_slice]
    /\ pc' = "done"
    /\ UNCHANGED <<file_content, pos, tokens, token_slice, results, output>>

SpecReg == InitReg /\ [][RegisterCall]_vars

(***************************************************************************)
(* Vocabulary of the properties.  These read tokens and words on their     *)
(* own, without the program's parsers and encoders.                        *)
(***************************************************************************)
\* a signed decimal literal: an optional "-", then digits and nothing else
IsDecimalLiteral(t) ==
    /\ t # <<>>
    /\ LET body == IF t[1] = "-" THEN Tail(t) ELSE t
       IN  body # <<>> /\ \A k \in 1..Len(body) : IsDigit(body[k])

RECURSIVE DigitsNumber(_)
DigitsNumber(ds) ==
    IF ds = <<>> THEN 0
    ELSE 10 * DigitsNumber(SubSeq(ds, 1, Len(ds) - 1)) + DigitValue(ds[Len(ds)])

\* the integer a decimal literal denotes
LiteralValue(t) ==
    IF t[1] = "-" THEN - DigitsNumber(Tail(t)) ELSE DigitsNumber(t)

\* the token "r" or "R" followed by one digit 0..7, and nothing else
IsRegisterToken(t) ==
    Len(t) = 2 /\ t[1] \in {"r", "R"} /\ t[2] \in {Digits[k] : k \in 1..8}

RECURSIVE BitsNumber(_)
\* the number a sequence of "0" and "1" denotes, most significant first
BitsNumber(bs) ==
    IF bs = <<>> THEN 0
    ELSE 2 * BitsNumber(SubSeq(bs, 1, Len(bs) - 1))
         + (IF bs[Len(bs)] = "1" THEN 1 ELSE 0)

\* bits hi..lo of a printed 16-bit word, bit 15 being its first character
Field(w, hi, lo) == BitsNumber(SubSeq(w, 16 - hi, 16 - lo))

\* a parse call has returned or panicked
Called == last.kind # "none"

\* the instruction the call's first token names, "Err" if none
CalledMnemonic == IF last.before = <<>> THEN "Err" ELSE try_from(last.before[1])

\* the k-th operand token of the call
Operand(k) == last.before[k + 1]

\* the word main prints for the pair the call returned
LastWord == FormatWord(last.instruction, last.data)

IsSuffix(s, t) == Len(s) <= Len(t) /\ s = SubSeq(t, Len(t) - Len(s) + 1, Len(t))

IsPrefix(s, t) == Len(s) <= Len(t) /\ s = SubSeq(t, 1, Len(s))

(***************************************************************************)
(* C1                                                                      *)
(***************************************************************************)
\* C1: for add and and with valid registers as first and second operand, a
\* third token that parse_register accepts gives the 3-register form, bit 5
\* clear and sr2 in bits 2..0; otherwise the third token is a signed decimal
\* literal v: for v in -16..15 parse gives the immediate form with bit 5 set
\* and low 5 bits v mod 32, and for v outside -16..15 parse fails with an
\* error and gives no word.
C1_AddAndAddressingModes ==
    (/\ Called
     /\ CalledMnemonic \in {"Add", "And"}
     /\ Len(last.before) >= 4
     /\ parse_register(Operand(1)).ok
     /\ parse_register(Operand(2)).ok)
    => IF parse_register(Operand(3)).ok
       THEN /\ last.kind = "ok"
            /\ last.data.tag = CalledMnemonic
            /\ Field(LastWord, 5, 5) = 0
            /\ Field(LastWord, 2, 0) = parse_register(Operand(3)).v
       ELSE IsDecimalLiteral(Operand(3))
            => IF LiteralValue(Operand(3)) \in -16..15
               THEN /\ last.kind = "ok"
                    /\ last.data.tag \in {"AddImmediate", "AndImmediate"}
                    /\ Field(LastWord, 5, 5) = 1
                    /\ Field(LastWord, 4, 0) = LiteralValue(Operand(3)) % 32
               ELSE last.kind = "err"

(***************************************************************************)
(* C2                                                                      *)
(***************************************************************************)
\* C2: every failure of parse is a value returned to the caller: no token
\* sequence makes a parse call panic.
C2_ParseNeverPanics == last.kind # "panic"

(***************************************************************************)
(* C3                                                                      *)
(***************************************************************************)
\* the width of the signed offset field of an instruction, 0 if it has none
OffsetBits(i) ==
    CASE i \in {"Branch", "Load", "LoadEffectiveAddress", "Store",
                "StoreIndirect"} -> 9
      [] i = "JumpSubroutine" -> 11
      [] i \in {"LoadRegister", "StoreRegister"} -> 6
      [] OTHER -> 0

\* C3: for br, ld, lea, st, sti (9 bits), jsr (11 bits), ldr and str (6
\* bits) a well-formed decimal literal outside the signed range of the
\* offset field makes parse fail with an error; it is never accepted and
\* wrapped by the encoder's mask.
C3_OffsetOutOfRangeFails ==
    (/\ Called
     /\ CalledMnemonic \in Instructions
     /\ OffsetBits(CalledMnemonic) > 0
     /\ Len(last.before) >= num_args(CalledMnemonic) + 1
     /\ \A k \in 1..(num_args(CalledMnemonic) - 1) :
            CalledMnemonic = "Branch" \/ IsRegisterToken(Operand(k))
     /\ IsDecimalLiteral(Operand(num_args(CalledMnemonic)))
     /\ LiteralValue(Operand(num_args(CalledMnemonic))) \notin
            (- (2 ^ (OffsetBits(CalledMnemonic) - 1)))
                .. (2 ^ (OffsetBits(CalledMnemonic) - 1) - 1))
    => last.kind = "err"

(***************************************************************************)
(* C4                                                                      *)
(***************************************************************************)
\* the packing of a record d in the printed word w, field by field
PackedAsItsShape(w, d) ==
    CASE d.tag \in {"Add", "And"} ->
            /\ Field(w, 11, 9) = d.dr /\ Field(w, 8, 6) = d.sr1
            /\ Field(w, 5, 3) = 0 /\ Field(w, 2, 0) = d.sr2
      [] d.tag \in {"AddImmediate", "AndImmediate"} ->
            /\ Field(w, 11, 9) = d.dr /\ Field(w, 8, 6) = d.sr1
            /\ Field(w, 5, 5) = 1 /\ Field(w, 4, 0) = d.imm5 % 32
      [] d.tag = "Branch" ->
            Field(w, 11, 9) = d.nzp /\ Field(w, 8, 0) = d.pc_offset9 % 512
      [] d.tag \in {"Load", "LoadIndirect", "LoadEffectiveAddress"} ->
            Field(w, 11, 9) = d.dr /\ Field(w, 8, 0) = d.pc_offset9 % 512
      [] d.tag \in {"Store", "StoreIndirect"} ->
            Field(w, 11, 9) = d.sr /\ Field(w, 8, 0) = d.pc_offset9 % 512
      [] d.tag = "LoadRegister" ->
            /\ Field(w, 11, 9) = d.dr /\ Field(w, 8, 6) = d.base_r
            /\ Field(w, 5, 0) = d.offset6 % 64
      [] d.tag = "StoreRegister" ->
            /\ Field(w, 11, 9) = d.sr /\ Field(w, 8, 6) = d.base_r
            /\ Field(w, 5, 0) = d.offset6 % 64
      [] d.tag \in {"Jump", "JumpSubroutineRegister"} ->
            /\ Field(w, 11, 9) = 0 /\ Field(w, 8, 6) = d.base_r
            /\ Field(w, 5, 0) = 0
      [] d.tag = "JumpSubroutine" ->
            Field(w, 11, 11) = 1 /\ Field(w, 10, 0) = d.pc_offset11 % 2048
      [] d.tag = "Not" ->
            /\ Field(w, 11, 9) = d.dr /\ Field(w, 8, 6) = d.sr
            /\ Field(w, 5, 0) = 63
      [] d.tag = "Return" ->
            SubSeq(w, 5, 16) = <<"0", "0", "0", "1", "1", "1",
                                 "0", "0", "0", "0", "0", "0">>
      [] d.tag = "ReturnInterrupt" -> Field(w, 11, 0) = 0
      [] d.tag = "Trap" -> Field(w, 11, 8) = 0 /\ Field(w, 7, 0) = d.trapvect8

\* the examples of the claim: a first line and the word printed for it
ExampleWords ==
    {<<<<Keyword("Add"), Reg(1), Reg(2), Reg(3)>>,
       <<"0","0","0","1", "0","0","1", "0","1","0", "0","0","0", "0","1","1">>>>,
     <<<<Keyword("LoadRegister"), Reg(3), Reg(4), Dec(10)>>,
       <<"0","1","1","0", "0","1","1", "1","0","0", "0","0","1","0","1","0">>>>,
     <<<<Keyword("Jump"), Reg(7)>>,
       <<"1","1","0","0", "0","0","0", "1","1","1", "0","0","0","0","0","0">>>>,
     <<<<Keyword("Trap"), Dec(37)>>,
       <<"1","1","1","1", "0","0","0","0", "0","0","1","0","0","1","0","1">>>>}

\* C4: every printed word is exactly 16 bits, the opcode of its mnemonic in
\* bits 15..12 and in bits 11..0 a payload below 2^12 packed as the shape of
\* its operand record says, no field overlapping another; the four examples
\* of the claim print as it says.
C4_WordIsOpcodeAndPackedPayload ==
    /\ \A i \in 1..Len(output) :
          LET w == output[i].word
          IN  /\ Len(w) = 16
              /\ \A k \in 1..Len(w) : w[k] \in {"0", "1"}
              /\ Field(w, 15, 12) = InstructionBinary(results[i].instruction)
              /\ BitsNumber(w) =
                    4096 * InstructionBinary(results[i].instruction)
                        + Field(w, 11, 0)
              /\ PackedAsItsShape(w, results[i].data)
    /\ \A e \in ExampleWords :
          (pc = "done" /\ IsPrefix(e[1], tokens))
              => Len(output) >= 1 /\ output[1].word = e[2]

\* a word printed for ldr with a negative offset
C4_Witness ==
    /\ pc = "done"
    /\ \E i \in 1..Len(output) :
          results[i].data.tag = "LoadRegister" /\ results[i].data.offset6 < 0

(***************************************************************************)
(* C5                                                                      *)
(***************************************************************************)
\* C5: the remaining stream is always a suffix of the token stream; a
\* successful parse of m removes exactly the mnemonic and num_args(m)
\* operand tokens from its front, whichever addressing mode was taken; and
\* with fewer than num_args(m) tokens after the mnemonic parse fails with
\* "Invalid number of arguments" and indexes no token past the end.
C5_ConsumesMnemonicAndArity ==
    /\ IsSuffix(token_slice, tokens)
    /\ last.msg # "index out of bounds"
    /\ (Called /\ last.kind = "ok") =>
          /\ last.instruction = CalledMnemonic
          /\ Len(last.before) >= 1 + num_args(CalledMnemonic)
          /\ token_slice =
                SubSeq(last.before, 2 + num_args(CalledMnemonic),
                       Len(last.before))
    /\ (/\ Called
        /\ CalledMnemonic \in Instructions
        /\ Len(last.before) - 1 < num_args(CalledMnemonic))
       => /\ last.kind = "err"
          /\ last.msg = "Invalid number of arguments"

\* an add in immediate form was parsed, and a later call had too few
\* operands
C5_Witness ==
    /\ Len(results) >= 1
    /\ results[1].data.tag = "AddImmediate"
    /\ last.msg = "Invalid number of arguments"

(***************************************************************************)
(* C6                                                                      *)
(***************************************************************************)
RECURSIVE TokensFrom(_, _)
\* every token next() returns on text from byte offset p on
TokensFrom(text, p) ==
    LET r == TokenizerNextResult(text, p)
    IN  IF r.kind = "some" THEN <<r.tok>> \o TokensFrom(text, r.pos) ELSE <<>>

\* the word of the instruction written on a line, <<>> when the line is
\* not one instruction
LineWord(line) ==
    LET r == parse(TokensFrom(line, 0))
    IN  IF r.kind = "ok" /\ r.rest = <<>>
        THEN FormatWord(r.instruction, r.data)
        ELSE <<>>

\* C6: when a file of N lines assembles without failure, exactly N words
\* are printed and the i-th is the encoding of the instruction on line i.
C6_OneWordPerLineInOrder ==
    pc = "done" =>
        /\ Len(output) = Len(lines(file_content))
        /\ \A i \in 1..Len(output) :
              output[i].word = LineWord(lines(file_content)[i])

(***************************************************************************)
(* C7                                                                      *)
(***************************************************************************)
Occurs(c, t) == c \in {t[k] : k \in 1..Len(t)}

\* bits 11..9 of the word are n, z, p exactly as the letters occur in t
FlagsByMembership(w, t) ==
    /\ Field(w, 11, 11) = 1 <=> Occurs("n", t)
    /\ Field(w, 10, 10) = 1 <=> Occurs("z", t)
    /\ Field(w, 9, 9) = 1 <=> Occurs("p", t)

InOffset9Range(t) == IsDecimalLiteral(t) /\ LiteralValue(t) \in -256..255

\* C7 as claimed: the flags of a branch are decided by the letters of its
\* condition token alone, and a branch without condition letters, the form
\* "br 5" with only an offset included, encodes with flags 000 and does not
\* fail.
C7_BranchWithoutLettersEncodes ==
    (Called /\ CalledMnemonic = "Branch") =>
        /\ last.kind = "ok" => FlagsByMembership(LastWord, Operand(1))
        /\ (/\ Len(last.before) >= 2
            /\ ~ Occurs("n", Operand(1))
            /\ ~ Occurs("z", Operand(1))
            /\ ~ Occurs("p", Operand(1))
            /\ IF Len(last.before) = 2
               THEN InOffset9Range(Operand(1))
               ELSE InOffset9Range(Operand(2)))
           => last.kind = "ok" /\ Field(LastWord, 11, 9) = 0

\* C7 amended: a branch takes two operand tokens.  When parse succeeds the
\* n, z and p bits are set exactly as the letters occur in the first one;
\* with a decimal literal in -256..255 as the second one parse succeeds
\* whatever the first one is, so a first token without condition letters
\* gives flags 000; with fewer than two operand tokens, as in "br 5", parse
\* fails with "Invalid number of arguments".
C7_BranchFlagsByMembership ==
    (Called /\ CalledMnemonic = "Branch") =>
        /\ last.kind = "ok" => FlagsByMembership(LastWord, Operand(1))
        /\ (Len(last.before) >= 3 /\ InOffset9Range(Operand(2)))
           => last.kind = "ok"
        /\ Len(last.before) < 3
           => last.kind = "err" /\ last.msg = "Invalid number of arguments"

\* "br 5 <offset>" was encoded with flags 000, and a later "br 5" at the end
\* of the stream failed
C7_Witness ==
    /\ Len(results) >= 1
    /\ results[1].data.tag = "Branch"
    /\ results[1].data.nzp = 0
    /\ tokens[2] = <<"5">>
    /\ last.before = <<Keyword("Branch"), <<"5">>>>
    /\ last.kind = "err"

(***************************************************************************)
(* C8 (under SpecReg)                                                      *)
(***************************************************************************)
\* C8: parse_register succeeds exactly on the two-character tokens "r" or
\* "R" followed by a digit 0..7, and then returns the digit's value.
C8_RegisterIsExactlyLetterAndDigit ==
    pc = "done" =>
        /\ last.kind = "ok" <=> IsRegisterToken(last.before[1])
        /\ last.kind = "ok" => last.data.v = DigitValue(last.before[1][2])

(***************************************************************************)
(* C9 (under SpecTok)                                                      *)
(***************************************************************************)
RECURSIVE MaximalRuns(_, _)
\* the maximal runs of non-delimiters of s, cur being the run under way
MaximalRuns(s, cur) ==
    LET done == IF cur = <<>> THEN <<>> ELSE <<cur>>
    IN  IF s = <<>> THEN done
        ELSE IF IsDelimiter(Head(s)) THEN done \o MaximalRuns(Tail(s), <<>>)
        ELSE MaximalRuns(Tail(s), Append(cur, Head(s)))

\* C9: on every text, multi-byte characters included, the calls of next()
\* return the maximal runs of non-delimiters from left to right and then
\* None: no call panics, no token is empty or holds a delimiter, the cursor
\* stays within the text, and there are at most as many tokens as
\* characters.
C9_TokensAreMaximalRuns ==
    /\ pc # "panic"
    /\ pos <= ByteLen(file_content)
    /\ Len(tokens) <= Len(file_content)
    /\ \A i \in 1..Len(tokens) :
          tokens[i] # <<>> /\ \A k \in 1..Len(tokens[i]) :
                                 ~ IsDelimiter(tokens[i][k])
    /\ IsPrefix(tokens, MaximalRuns(file_content, <<>>))
    /\ pc = "parse" => tokens = MaximalRuns(file_content, <<>>)

\* the cursor never moves backwards
CursorNeverMovesBack == [][pos' >= pos]_vars

(***************************************************************************)
(* C10                                                                     *)
(***************************************************************************)
\* the one pair of variants meant to share a word: ret and "jmp r7"
IsRetAndJmpR7(a, b) ==
    /\ a.instruction = "Return"
    /\ b.instruction = "Jump"
    /\ b.data.base_r = 7

\* C10: two parsed instructions of different variants never print the same
\* word, ret and "jmp r7" excepted.
C10_WordIdentifiesVariant ==
    pc = "done" =>
        \A i, j \in 1..Len(output) :
            (/\ results[i].instruction # results[j].instruction
             /\ ~ IsRetAndJmpR7(results[i], results[j])
             /\ ~ IsRetAndJmpR7(results[j], results[i]))
            => output[i].word # output[j].word

====
